---- MODULE Spec2Model ----
(***************************************************************************)
(* The data synchronisation subsystem of geoguessr-stats:                  *)
(*   - GeoGuessrApiClient.getAllGameTokens  (feed pagination, dedup)       *)
(*   - SyncService.syncAllData / saveGameData / saveRounds                 *)
(*   - routes/sync.ts  POST /refresh, POST /cancel/:userId, cleanup timers *)
(* Every suspension point (await) of the code is one step of the model.    *)
(***************************************************************************)
EXTENDS Integers, Sequences, FiniteSets, TLC

VARIABLES
    feed,        \* the remote feed: a sequence of pages (cursor k names page k)
    pager,       \* per run: locals of getAllGameTokens
    sync,        \* per run: locals of syncAllData / saveGameData / saveRounds
    games,       \* collection 'games': set of documents
    rounds,      \* collection 'rounds': sequence of documents, in insertion order
    nextId,      \* next ObjectId the store hands out
    syncStatus,  \* routes/sync.ts: Map<userId, status>
    handler,     \* per request: position of the POST /refresh handler
    timers,      \* pending setTimeout cleanup callbacks
    cancelReq,   \* per POST /cancel request: the user and the response
    remote,      \* the remote detail endpoint: token -> the payload it answers with
    trace,       \* history: what each run requested and what it got
    writes,      \* number of calls of gameUtils / roundUtils / clearDatabase so far
    clearing     \* clearDatabase: the collections whose deleteMany({}) is still pending

vars == <<feed, pager, sync, games, rounds, nextId, syncStatus, handler, timers, cancelReq, remote, trace,
          writes, clearing>>

----------------------------------------------------------------------------
(* Bounds of the model *)

MaxRuns == 2            \* runs of syncAllData in one behaviour
MaxPageFailures == 1    \* failed list-page requests in one behaviour
MaxDetailFailures == 1  \* failed entity-detail requests in one behaviour
MaxCorrections == 1     \* upstream corrections of a detail payload
MaxCancels == 2         \* POST /cancel requests in one behaviour
MaxWrites == 1          \* calls of the writers outside the sync path in one behaviour
MaxCount == 8           \* where a page counter stops growing (2^53 in the program)

Runs == 1..MaxRuns

(* Program constants *)

POSITIVE_INFINITY == -1          \* getAllGameTokens' default maxPages
EmptyPagesLimit == 3             \* consecutive pages without new tokens
DefaultMaxPages == 5             \* syncAllData's default maxPages

----------------------------------------------------------------------------
(* Feed payload strings.  A payload string is either the JSON text of one  *)
(* object, the JSON text of an array (it starts with '['), or text that    *)
(* JSON.parse rejects.                                                     *)

Obj(t) == [payload |-> <<>>, gameToken |-> t]
Wrapped(t) == [payload |-> <<Obj(t)>>, gameToken |-> ""]
Single(t) == [startsWithBracket |-> FALSE, validJson |-> TRUE, json |-> <<Obj(t)>>]
Batch(items) == [startsWithBracket |-> TRUE, validJson |-> TRUE, json |-> items]
Garbage == [startsWithBracket |-> FALSE, validJson |-> FALSE, json |-> <<>>]
GarbageBatch == [startsWithBracket |-> TRUE, validJson |-> FALSE, json |-> <<>>]

Entry(type, payload) == [type |-> type, payload |-> payload]
Completion(t) == Entry(1, Single(t))
Page(entries, next) == [entries |-> entries, paginationToken |-> next]

(* parseGamePayload: [ok, payloads]; ok = FALSE is the thrown parse error. *)
ParseGamePayload(payloadString) ==
    IF ~payloadString.validJson
    THEN [ok |-> FALSE, payloads |-> <<>>]
    ELSE IF payloadString.startsWithBracket
         THEN [ok |-> TRUE,
               payloads |-> [k \in DOMAIN payloadString.json |->
                               IF payloadString.json[k].payload # <<>>
                               THEN payloadString.json[k].payload[1]
                               ELSE payloadString.json[k]]]
         ELSE [ok |-> TRUE, payloads |-> <<payloadString.json[1]>>]

(* A faulty variant of ScanPayloads that forgets the seenTokens test. *)
RECURSIVE ScanPayloadsNoDedup(_, _)
ScanPayloadsNoDedup(payloads, acc) ==
    IF payloads = <<>> THEN acc
    ELSE LET tok == Head(payloads).gameToken IN
         ScanPayloadsNoDedup(Tail(payloads),
            IF tok # ""
            THEN [seen |-> acc.seen \cup {tok},
                  tokens |-> Append(acc.tokens, tok),
                  new |-> acc.new + 1]
            ELSE acc)

(* The inner loop of getAllGameTokens over one entry's payloads.           *)
(* acc = [seen, tokens, new]                                               *)
RECURSIVE ScanPayloads(_, _)
ScanPayloads(payloads, acc) ==
    IF payloads = <<>> THEN acc
    ELSE LET tok == Head(payloads).gameToken IN
         ScanPayloads(Tail(payloads),
            IF tok # "" /\ tok \notin acc.seen
            THEN [seen |-> acc.seen \cup {tok},
                  tokens |-> Append(acc.tokens, tok),
                  new |-> acc.new + 1]
            ELSE acc)

(* The loop of getAllGameTokens over the entries of one page. *)
RECURSIVE ScanEntries(_, _)
ScanEntries(entries, acc) ==
    IF entries = <<>> THEN acc
    ELSE LET e == Head(entries)
             parsed == ParseGamePayload(e.payload)
         IN ScanEntries(Tail(entries),
               IF e.type = 1 /\ parsed.ok
               THEN ScanPayloads(parsed.payloads, acc)
               ELSE acc)

(* The remote list-page endpoint: no cursor means the first page. *)
GetFeed(paginationToken) ==
    feed[IF paginationToken = 0 THEN 1 ELSE paginationToken]

(* A faulty variant of the loop condition that ignores the cap. *)
BelowCapAlways(pageCount, maxPages) == TRUE

(* pageCount < maxPages, with maxPages possibly Number.POSITIVE_INFINITY *)
BelowCap(pageCount, maxPages) ==
    maxPages = POSITIVE_INFINITY \/ pageCount < maxPages

(* A faulty variant of the empty-page test that never stops on empty pages. *)
TooManyEmptyPagesNever(emptyPagesCount) == FALSE

(* emptyPagesCount >= 3 *)
TooManyEmptyPages(emptyPagesCount) == emptyPagesCount >= EmptyPagesLimit

----------------------------------------------------------------------------
(* getAllGameTokens *)

(* upstream is the state of the remote during the call: "up" (a request   *)
(* succeeds or fails transiently), "down" (every request fails) or        *)
(* "unauthorized" (every request is answered 401/403).                    *)
Upstreams == {"up", "down", "unauthorized"}

PagerIdle == [pc |-> "idle", maxPages |-> 0, gameTokens |-> <<>>, seenTokens |-> {},
              paginationToken |-> 0, pageCount |-> 0, emptyPagesCount |-> 0,
              upstream |-> "up"]

(* pageCount++ on a double: the value no longer grows once it is 2^53 *)
Increment(n) == IF n < MaxCount THEN n + 1 ELSE n

(* what getFeed's rejection is about *)
FailureCause(upstream) == IF upstream = "unauthorized" THEN "auth" ELSE "network"

(* the log of a run's list-page requests keeps the first MaxCount of them *)
Logged(log, entry) == IF Len(log) < MaxCount THEN Append(log, entry) ELSE log

PagerStart(maxPages) == [PagerIdle EXCEPT !.pc = "loop", !.maxPages = maxPages]

NoSnapshot == [games |-> {}, rounds |-> <<>>, remote |-> <<>>]
TraceEmpty == [pages |-> <<>>, fetches |-> <<>>, saves |-> <<>>, skips |-> <<>>,
               before |-> NoSnapshot, after |-> NoSnapshot]

PageFailures(r) == Cardinality({k \in DOMAIN trace[r].pages : ~trace[r].pages[k].ok})
AllPageFailures == Cardinality({<<r, k>> \in Runs \X (1..MaxCount) :
                                   k \in DOMAIN trace[r].pages /\ ~trace[r].pages[k].ok})

(* A faulty variant of the end-of-feed test that never sees the end. *)
EndOfFeedNever(page) == FALSE

(* !feed.paginationToken *)
EndOfFeed(page) == page.paginationToken = 0

(* One iteration of the while loop in which getFeed answers. *)
FeedPageOk(r) ==
    /\ pager[r].pc = "loop"
    /\ BelowCap(pager[r].pageCount, pager[r].maxPages)
    /\ pager[r].upstream = "up"
    /\ LET p == pager[r]
           page == GetFeed(p.paginationToken)
           scan == ScanEntries(page.entries,
                      [seen |-> p.seenTokens, tokens |-> p.gameTokens, new |-> 0])
           empties == IF scan.new = 0 THEN p.emptyPagesCount + 1 ELSE 0
           stop == (scan.new = 0 /\ TooManyEmptyPages(empties))
                   \/ EndOfFeed(page)
       IN /\ pager' = [pager EXCEPT ![r] =
                [p EXCEPT !.pageCount = Increment(p.pageCount),
                          !.seenTokens = scan.seen,
                          !.gameTokens = scan.tokens,
                          !.emptyPagesCount = empties,
                          !.paginationToken =
                              IF stop THEN p.paginationToken ELSE page.paginationToken,
                          !.pc = IF stop THEN "done" ELSE "loop"]]
          /\ trace' = [trace EXCEPT ![r].pages =
                Logged(@, [cursor |-> p.paginationToken, ok |-> TRUE, new |-> scan.new,
                           cause |-> ""])]
    /\ UNCHANGED <<feed, writes, clearing, sync, games, rounds, nextId, syncStatus, handler, timers, cancelReq, remote>>

(* A faulty variant of the catch branch that starts again from the first page. *)
PageFailedRestart(p) ==
    [p EXCEPT !.pageCount = Increment(@), !.pc = "delay", !.paginationToken = 0,
              !.gameTokens = <<>>, !.seenTokens = {}]

(* the catch branch of the loop: pageCount++, the locals stay as they are *)
PageFailed(p) == [p EXCEPT !.pageCount = Increment(@), !.pc = "delay"]

(* An iteration in which getFeed throws: the page is counted and the call   *)
(* waits for the longer delay of the catch branch.                         *)
FeedPageFail(r) ==
    /\ pager[r].pc = "loop"
    /\ BelowCap(pager[r].pageCount, pager[r].maxPages)
    /\ pager[r].upstream = "up" => AllPageFailures < MaxPageFailures
    /\ pager' = [pager EXCEPT ![r] = PageFailed(@)]
    /\ trace' = [trace EXCEPT ![r].pages =
          Logged(@, [cursor |-> pager[r].paginationToken, ok |-> FALSE, new |-> 0,
                     cause |-> FailureCause(pager[r].upstream)])]
    /\ UNCHANGED <<feed, writes, clearing, sync, games, rounds, nextId, syncStatus, handler, timers, cancelReq, remote>>

(* The delay of the catch branch is over: continue, with the same cursor. *)
RetryDelayOver(r) ==
    /\ pager[r].pc = "delay"
    /\ pager' = [pager EXCEPT ![r].pc = "loop"]
    /\ UNCHANGED <<feed, writes, clearing, sync, games, rounds, nextId, syncStatus, handler, timers, cancelReq, remote, trace>>

(* The while condition is false: the loop ends. *)
PageCapReached(r) ==
    /\ pager[r].pc = "loop"
    /\ ~BelowCap(pager[r].pageCount, pager[r].maxPages)
    /\ pager' = [pager EXCEPT ![r].pc = "done"]
    /\ UNCHANGED <<feed, writes, clearing, sync, games, rounds, nextId, syncStatus, handler, timers, cancelReq, remote, trace>>

----------------------------------------------------------------------------
(* Detail payloads (GeoGuessrGameDetails).  Country codes are strings; the *)
(* amount of a score is a string of decimal digits.                        *)

Codes == {"", "se", "SE", "no", "NO"}

(* String.prototype.toUpperCase on the codes above *)
ToUpperCase(s) ==
    CASE s = "se" -> "SE"
      [] s = "no" -> "NO"
      [] OTHER -> s

RECURSIVE DigitsValue(_, _)
DigitsValue(digits, acc) ==
    IF digits = <<>> THEN acc
    ELSE DigitsValue(Tail(digits), acc * 10 + Head(digits))

NaN == -1
(* parseInt of a string of digits; the empty string gives NaN *)
ParseInt(digits) == IF digits = <<>> THEN NaN ELSE DigitsValue(digits, 0)

Loc(code) == [present |-> TRUE, streakLocationCode |-> code]
Guess(code, points, meters, time) ==
    [present |-> TRUE, streakLocationCode |-> code, roundScoreInPoints |-> points,
     distanceInMeters |-> meters, time |-> time]
Missing == [present |-> FALSE]

Details(mode, map, state, amount, rs, gs) ==
    [mode |-> mode, map |-> map, mapName |-> map, state |-> state,
     roundCount |-> Len(rs), forbidMoving |-> FALSE,
     rounds |-> rs, player |-> [totalScore |-> [amount |-> amount], guesses |-> gs]]

(* The payloads the remote detail endpoint can answer with, by name. *)
PayloadNames == {"one", "five", "three", "badScore", "gap"}

Payload(name) ==
    CASE name = "one" ->
           \* the fixture of syncService.test.ts: actual "se", guess "SE"
           Details("standard", "world", "finished", <<5, 0, 0, 0>>,
                   <<Loc("se")>>, <<Guess("SE", 5000, 0, 10)>>)
      [] name = "five" ->
           Details("standard", "world", "finished", <<1, 2, 5, 0, 0>>,
                   <<Loc("SE"), Loc("NO"), Loc("SE"), Loc("NO"), Loc("NO")>>,
                   <<Guess("SE", 5000, 0, 10), Guess("SE", 1000, 1500000, 20),
                     Guess("NO", 1500, 900000, 30), Guess("NO", 4000, 2500, 5),
                     Guess("", 1000, 1200000, 0)>>)
      [] name = "three" ->
           \* a payload that names another mode and map than "five"
           Details("streak", "europe", "finished", <<9, 0, 0, 0>>,
                   <<Loc("SE"), Loc("NO"), Loc("SE")>>,
                   <<Guess("SE", 5000, 0, 10), Guess("SE", 1000, 1500000, 20),
                     Guess("no", 3000, 900000, 30)>>)
      [] name = "gap" ->
           \* three rounds, the second without a guess
           Details("standard", "world", "finished", <<8, 0, 0, 0>>,
                   <<Loc("SE"), Loc("NO"), Loc("SE")>>,
                   <<Guess("SE", 5000, 0, 10), Missing, Guess("NO", 3000, 900000, 30)>>)
      [] name = "badScore" ->
           \* a round score above the schema's maximum
           Details("standard", "world", "finished", <<5, 0, 0, 1>>,
                   <<Loc("SE")>>, <<Guess("SE", 5001, 0, 10)>>)

Tokens == {"g1", "g2", "g3", "g4", "g5", "g9"}

(* What the remote answers for a token at first, and what an upstream *)
(* correction can change the answer to.                                *)
FirstVersion(token) ==
    CASE token = "g1" -> "one"
      [] token = "g2" -> "five"
      [] token = "g4" -> "one"
      [] token = "g5" -> "gap"
      [] OTHER -> "three"

Corrections(token) ==
    CASE token = "g2" -> {"five", "three"}
      [] token = "g4" -> {"one", "badScore"}
      [] OTHER -> {}

----------------------------------------------------------------------------
(* The store: Mongoose schemas of models/Game.ts and models/Round.ts *)

NoDoc == [_id |-> 0]

FindGame(token) ==
    IF \E g \in games : g.game_token = token
    THEN CHOOSE g \in games : g.game_token = token
    ELSE NoDoc

(* gameSchema validators on the paths the sync writes *)
GameValid(g) ==
    /\ g.game_token # "" /\ g.game_mode # "" /\ g.map_name # "" /\ g.map_id # ""
    /\ g.total_score # NaN /\ g.total_score >= 0 /\ g.total_score <= 25000
    /\ g.game_state \in {"finished", "in_progress", "abandoned"}
    /\ g.round_count >= 1 /\ g.round_count <= 5

(* roundSchema setters: actual_country_code is uppercased *)
RoundCast(doc) == [doc EXCEPT !.actual_country_code = ToUpperCase(@)]

(* roundSchema validators *)
RoundValid(doc) ==
    /\ doc.round_number >= 1 /\ doc.round_number <= 5
    /\ doc.actual_country_code # ""
    /\ doc.score >= 0 /\ doc.score <= 5000
    /\ doc.distance_meters >= 0
    /\ doc.time_taken >= 0

RoundsOf(gameId) == SelectSeq(rounds, LAMBDA d : d.game_id = gameId)

(* A faulty variant of deleteMany that deletes nothing. *)
DeleteNothing(coll, gameId) == coll

(* Round.deleteMany({ game_id }) *)
DeleteMany(coll, gameId) == SelectSeq(coll, LAMBDA d : d.game_id # gameId)

(* Round.insertMany(docs): every document is validated first; one invalid *)
(* document rejects the whole call.                                       *)
InsertManyOk(docs) == \A k \in DOMAIN docs : RoundValid(RoundCast(docs[k]))
InsertMany(coll, docs) == coll \o [k \in DOMAIN docs |-> RoundCast(docs[k])]

----------------------------------------------------------------------------
(* SyncService.saveGameData / saveRounds: the documents they build *)

(* guessData.distanceInMeters / 1000, as whole kilometres and the metres *)
(* left over (the exact quotient m / 1000)                               *)
DistanceKm(meters) == [km |-> meters \div 1000, m |-> meters % 1000]

(* roundData.streakLocationCode === guessData.streakLocationCode *)
IsCorrectCountry(actual, guess) == actual = guess

GuessAt(d, k) == IF k <= Len(d.player.guesses) THEN d.player.guesses[k] ELSE Missing

(* A faulty variant of the round number that numbers every round 1. *)
RoundNumberOne(k) == 1

(* round_number: i + 1 for the 0-based index i, i.e. the 1-based position *)
RoundNumber(k) == k

BuildRound(gameId, userId, d, k) ==
    LET roundData == d.rounds[k]
        guessData == GuessAt(d, k)
    IN [game_id |-> gameId,
        user_id |-> userId,
        round_number |-> RoundNumber(k),
        actual_country_code |-> roundData.streakLocationCode,
        score |-> guessData.roundScoreInPoints,
        distance_meters |-> guessData.distanceInMeters,
        distance_km |-> DistanceKm(guessData.distanceInMeters),
        time_taken |-> guessData.time,
        is_correct_country |->
            IsCorrectCountry(roundData.streakLocationCode, guessData.streakLocationCode),
        country_guess |-> guessData.streakLocationCode,
        country_actual |-> roundData.streakLocationCode]

(* A faulty variant of the loop that stops at the first missing round or guess. *)
RECURSIVE BuildRoundsUntilGap(_, _, _, _)
BuildRoundsUntilGap(gameId, userId, d, k) ==
    IF k > Len(d.rounds) THEN <<>>
    ELSE IF ~d.rounds[k].present \/ ~GuessAt(d, k).present
         THEN <<>>
         ELSE <<BuildRound(gameId, userId, d, k)>> \o BuildRoundsUntilGap(gameId, userId, d, k + 1)

(* the for loop of saveRounds, from index k on *)
RECURSIVE BuildRounds(_, _, _, _)
BuildRounds(gameId, userId, d, k) ==
    IF k > Len(d.rounds) THEN <<>>
    ELSE IF ~d.rounds[k].present \/ ~GuessAt(d, k).present
         THEN BuildRounds(gameId, userId, d, k + 1)
         ELSE <<BuildRound(gameId, userId, d, k)>> \o BuildRounds(gameId, userId, d, k + 1)

(* new Game({...}) of saveGameData *)
NewGame(id, userId, token, d) ==
    [_id |-> id, user_id |-> userId, game_token |-> token,
     map_id |-> d.map, map_name |-> d.mapName, game_mode |-> d.mode,
     total_score |-> ParseInt(d.player.totalScore.amount),
     game_state |-> d.state, round_count |-> d.roundCount,
     forbid_moving |-> d.forbidMoving, details_fetched |-> TRUE]

(* the else branch of saveGameData: assignments to the loaded document *)
UpdatedGame(game, d) ==
    [game EXCEPT !.total_score = ParseInt(d.player.totalScore.amount),
                 !.game_state = d.state,
                 !.round_count = d.roundCount,
                 !.forbid_moving = d.forbidMoving,
                 !.details_fetched = TRUE]

(* game.save() of a loaded document: the modified paths are written to the *)
(* stored document with the same _id                                       *)
StoredAfterSave(stored, loaded, game) ==
    [f \in DOMAIN stored |-> IF game[f] # loaded[f] THEN game[f] ELSE stored[f]]

----------------------------------------------------------------------------
(* SyncService.syncAllData *)

ResultInit == [success |-> FALSE, gamesProcessed |-> 0, newGames |-> 0,
               updatedGames |-> 0, errors |-> <<>>]

SyncIdle == [pc |-> "idle", userId |-> "", gameTokens |-> <<>>, i |-> 0,
             result |-> ResultInit, gameDetails |-> "", game |-> NoDoc,
             loaded |-> NoDoc, isNew |-> FALSE, newRounds |-> <<>>]

CurToken(r) == sync[r].gameTokens[sync[r].i]

DetailFailures(r) ==
    Cardinality({k \in DOMAIN trace[r].fetches : ~trace[r].fetches[k].ok})
AllDetailFailures == Cardinality({<<r, k>> \in Runs \X (1..20) :
                                     k \in DOMAIN trace[r].fetches /\ ~trace[r].fetches[k].ok})

(* the next iteration of the for loop, or the code after it *)
Advance(s) ==
    IF s.i < Len(s.gameTokens)
    THEN [s EXCEPT !.i = s.i + 1, !.pc = "check"]
    ELSE [s EXCEPT !.pc = "updateUser"]

(* A faulty variant of the inner catch that gives up the loop after an error. *)
CaughtAbort(s, cause) ==
    [s EXCEPT !.result.errors = Append(@, [token |-> s.gameTokens[s.i], cause |-> cause]),
              !.pc = "updateUser"]

(* the inner catch: result.errors.push(...), then the next iteration *)
Caught(s, cause) ==
    Advance([s EXCEPT !.result.errors =
                Append(@, [token |-> s.gameTokens[s.i], cause |-> cause])])

(* A faulty variant of the counters that counts every saved game as updated. *)
CountedAsUpdated(s) ==
    [s EXCEPT !.result.updatedGames = @ + 1,
              !.result.gamesProcessed = @ + 1,
              !.pc = "delay"]

(* A faulty variant of the counters that forgets gamesProcessed. *)
CountedUnprocessed(s) ==
    [s EXCEPT !.result.newGames = IF s.isNew THEN @ + 1 ELSE @,
              !.result.updatedGames = IF s.isNew THEN @ ELSE @ + 1,
              !.pc = "delay"]

(* after saveGameData returned: newGames++ or updatedGames++, gamesProcessed++ *)
Counted(s) ==
    [s EXCEPT !.result.newGames = IF s.isNew THEN @ + 1 ELSE @,
              !.result.updatedGames = IF s.isNew THEN @ ELSE @ + 1,
              !.result.gamesProcessed = @ + 1,
              !.pc = "delay"]

(* A faulty variant of the skip test that never skips. *)
AlreadyProcessedNever(existingGame) == FALSE

(* the skip test of the loop: existingGame && existingGame.details_fetched *)
AlreadyProcessed(existingGame) ==
    existingGame # NoDoc /\ existingGame.details_fetched

(* the call syncAllData(maxPages) up to its first await *)
CallSyncAllData(r, userId, maxPages) ==
    /\ sync' = [sync EXCEPT ![r] = [SyncIdle EXCEPT !.pc = "tokens", !.userId = userId]]
    /\ pager' = [pager EXCEPT ![r] = PagerStart(maxPages)]
    /\ trace' = [trace EXCEPT ![r] =
          [TraceEmpty EXCEPT !.before = [games |-> games, rounds |-> rounds, remote |-> remote]]]

(* getAllGameTokens returned *)
TokensReturned(r) ==
    /\ sync[r].pc = "tokens"
    /\ pager[r].pc = "done"
    /\ IF pager[r].gameTokens = <<>>
       THEN /\ sync' = [sync EXCEPT ![r].result.success = TRUE, ![r].pc = "done"]
            /\ trace' = [trace EXCEPT ![r].after = [games |-> games, rounds |-> rounds, remote |-> remote]]
       ELSE /\ sync' = [sync EXCEPT ![r].gameTokens = pager[r].gameTokens,
                                    ![r].i = 1, ![r].pc = "check"]
            /\ UNCHANGED trace
    /\ UNCHANGED <<feed, writes, clearing, pager, games, rounds, nextId, syncStatus, handler, timers, cancelReq, remote>>

(* Game.findOne({ game_token }) of the loop returned *)
FindExisting(r) ==
    /\ sync[r].pc = "check"
    /\ IF AlreadyProcessed(FindGame(CurToken(r)))
       THEN /\ sync' = [sync EXCEPT ![r] = Advance(sync[r])]
            /\ trace' = [trace EXCEPT ![r].skips = Append(@, CurToken(r))]
       ELSE /\ sync' = [sync EXCEPT ![r].pc = "fetch"]
            /\ UNCHANGED trace
    /\ UNCHANGED <<feed, writes, clearing, pager, games, rounds, nextId, syncStatus, handler, timers, cancelReq, remote>>

(* getGameDetails returned a payload *)
FetchDetailsOk(r) ==
    /\ sync[r].pc = "fetch"
    /\ LET name == remote[CurToken(r)] IN
          /\ sync' = [sync EXCEPT ![r].gameDetails = name, ![r].pc = "findGame"]
          /\ trace' = [trace EXCEPT ![r].fetches =
                Append(@, [token |-> CurToken(r), ok |-> TRUE, payload |-> name])]
    /\ UNCHANGED <<feed, writes, clearing, pager, games, rounds, nextId, syncStatus, handler, timers, cancelReq, remote>>

(* getGameDetails threw *)
FetchDetailsFail(r) ==
    /\ sync[r].pc = "fetch"
    /\ AllDetailFailures < MaxDetailFailures
    /\ sync' = [sync EXCEPT ![r] = Caught(sync[r], "fetch")]
    /\ trace' = [trace EXCEPT ![r].fetches =
          Append(@, [token |-> CurToken(r), ok |-> FALSE, payload |-> ""])]
    /\ UNCHANGED <<feed, writes, clearing, pager, games, rounds, nextId, syncStatus, handler, timers, cancelReq, remote>>

(* A faulty variant of the test that treats every game as absent. *)
NotFoundAlways(game) == TRUE

(* saveGameData: if (!game) *)
NotFound(game) == game = NoDoc

(* saveGameData: Game.findOne returned; the document is built or updated in memory *)
LoadGame(r) ==
    /\ sync[r].pc = "findGame"
    /\ LET s == sync[r]
           d == Payload(s.gameDetails)
           found == FindGame(CurToken(r))
       IN IF NotFound(found)
          THEN /\ sync' = [sync EXCEPT ![r] =
                     [s EXCEPT !.game = NewGame(nextId, s.userId, CurToken(r), d),
                               !.loaded = NoDoc, !.isNew = TRUE, !.pc = "saveGame"]]
               /\ nextId' = nextId + 1
          ELSE /\ sync' = [sync EXCEPT ![r] =
                     [s EXCEPT !.game = UpdatedGame(found, d),
                               !.loaded = found, !.isNew = FALSE, !.pc = "saveGame"]]
               /\ UNCHANGED nextId
    /\ UNCHANGED <<feed, writes, clearing, pager, games, rounds, syncStatus, handler, timers, cancelReq, remote, trace>>

(* saveGameData: game.save() returned or threw *)
SaveGame(r) ==
    /\ sync[r].pc = "saveGame"
    /\ LET s == sync[r] IN
       IF ~GameValid(s.game)
       THEN /\ sync' = [sync EXCEPT ![r] = Caught(s, "validation")]
            /\ UNCHANGED games
       ELSE IF s.isNew
       THEN IF \E g \in games : g.game_token = s.game.game_token
            THEN \* the unique index on game_token rejects the insert
                 /\ sync' = [sync EXCEPT ![r] = Caught(s, "duplicate key")]
                 /\ UNCHANGED games
            ELSE /\ games' = games \cup {s.game}
                 /\ sync' = [sync EXCEPT ![r].pc = "deleteRounds"]
       ELSE IF ~\E g \in games : g._id = s.game._id
       THEN \* the loaded document was deleted meanwhile: DocumentNotFoundError
            /\ sync' = [sync EXCEPT ![r] = Caught(s, "not found")]
            /\ UNCHANGED games
       ELSE LET stored == CHOOSE g \in games : g._id = s.game._id IN
            /\ games' = (games \ {stored}) \cup {StoredAfterSave(stored, s.loaded, s.game)}
            /\ sync' = [sync EXCEPT ![r].pc = "deleteRounds"]
    /\ UNCHANGED <<feed, writes, clearing, pager, rounds, nextId, syncStatus, handler, timers, cancelReq, remote, trace>>

(* saveRounds: Round.deleteMany returned; the new rounds are built *)
DeleteRounds(r) ==
    /\ sync[r].pc = "deleteRounds"
    /\ LET s == sync[r]
           built == BuildRounds(s.game._id, s.userId, Payload(s.gameDetails), 1)
       IN /\ rounds' = DeleteMany(rounds, s.game._id)
          /\ IF built = <<>>
             THEN /\ sync' = [sync EXCEPT ![r] = Counted(s)]
                  /\ trace' = [trace EXCEPT ![r].saves =
                        Append(@, [token |-> CurToken(r), isNew |-> s.isNew,
                                   payload |-> s.gameDetails])]
             ELSE /\ sync' = [sync EXCEPT ![r].newRounds = built, ![r].pc = "insertRounds"]
                  /\ UNCHANGED trace
    /\ UNCHANGED <<feed, writes, clearing, pager, games, nextId, syncStatus, handler, timers, cancelReq, remote>>

(* saveRounds: Round.insertMany returned or threw *)
InsertRounds(r) ==
    /\ sync[r].pc = "insertRounds"
    /\ LET s == sync[r] IN
       IF InsertManyOk(s.newRounds)
       THEN /\ rounds' = InsertMany(rounds, s.newRounds)
            /\ sync' = [sync EXCEPT ![r] = Counted([s EXCEPT !.newRounds = <<>>])]
            /\ trace' = [trace EXCEPT ![r].saves =
                  Append(@, [token |-> CurToken(r), isNew |-> s.isNew,
                             payload |-> s.gameDetails])]
       ELSE /\ sync' = [sync EXCEPT ![r] = Caught([s EXCEPT !.newRounds = <<>>], "validation")]
            /\ UNCHANGED <<rounds, trace>>
    /\ UNCHANGED <<feed, writes, clearing, pager, games, nextId, syncStatus, handler, timers, cancelReq, remote>>

(* the 500 ms pause after a processed game *)
Delay(r) ==
    /\ sync[r].pc = "delay"
    /\ sync' = [sync EXCEPT ![r] = Advance(sync[r])]
    /\ UNCHANGED <<feed, writes, clearing, pager, games, rounds, nextId, syncStatus, handler, timers, cancelReq, remote, trace>>

(* User.findByIdAndUpdate returned; success is set and the result returned *)
UpdateLastSync(r) ==
    /\ sync[r].pc = "updateUser"
    /\ sync' = [sync EXCEPT ![r].result.success = (sync[r].result.errors = <<>>),
                            ![r].pc = "done"]
    /\ trace' = [trace EXCEPT ![r].after = [games |-> games, rounds |-> rounds, remote |-> remote]]
    /\ UNCHANGED <<feed, writes, clearing, pager, games, rounds, nextId, syncStatus, handler, timers, cancelReq, remote>>

SyncStep(r) ==
    \/ FeedPageOk(r) \/ FeedPageFail(r) \/ RetryDelayOver(r) \/ PageCapReached(r)
    \/ TokensReturned(r) \/ FindExisting(r)
    \/ FetchDetailsOk(r) \/ FetchDetailsFail(r)
    \/ LoadGame(r) \/ SaveGame(r) \/ DeleteRounds(r) \/ InsertRounds(r)
    \/ Delay(r) \/ UpdateLastSync(r)

----------------------------------------------------------------------------
(* Feeds *)

FeedNames == {"single", "pair", "five", "batch", "overlap", "endless", "reset"}

Feed(name) ==
    CASE name = "single" ->
           \* one page, no next token, one completion entry
           <<Page(<<Completion("g1")>>, 0)>>
      [] name = "five" ->
           \* five identifiers on two overlapping pages
           <<Page(<<Completion("g1"), Completion("g2"), Completion("g3")>>, 2),
             Page(<<Completion("g3"), Completion("g4"), Completion("g5")>>, 0)>>
      [] name = "batch" ->
           \* duplicates on one page, in a batch payload, and unparsable entries
           <<Page(<<Completion("g2"), Entry(2, Single("g9")), Entry(1, Garbage),
                    Entry(1, Batch(<<Wrapped("g2"), Obj("g4"), Obj(""), Obj("g4")>>)),
                    Entry(1, GarbageBatch), Completion("g2")>>, 0)>>
      [] name = "pair" ->
           <<Page(<<Completion("g1"), Completion("g3")>>, 0)>>
      [] name = "overlap" ->
           <<Page(<<Completion("g1"), Completion("g2")>>, 2),
             Page(<<Completion("g2"), Completion("g3")>>, 3),
             Page(<<Completion("g3"), Completion("g1")>>, 0)>>
      [] name = "endless" ->
           \* every page carries a next token; pages 4-6 repeat known identifiers
           <<Page(<<Completion("g1")>>, 2), Page(<<Completion("g2")>>, 3),
             Page(<<Completion("g3")>>, 4), Page(<<Completion("g1")>>, 5),
             Page(<<Completion("g2"), Completion("g3")>>, 6), Page(<<>>, 7),
             Page(<<Completion("g4")>>, 7)>>
      [] name = "reset" ->
           \* two pages without new identifiers, then a new one, then three without
           <<Page(<<Completion("g1")>>, 2), Page(<<Completion("g1")>>, 3),
             Page(<<Completion("g1")>>, 4), Page(<<Completion("g2")>>, 5),
             Page(<<Completion("g2")>>, 6), Page(<<Completion("g1")>>, 7),
             Page(<<Entry(2, Single("g5"))>>, 8), Page(<<Completion("g3")>>, 8)>>

----------------------------------------------------------------------------
(* The stores the runs can start from: what the writers of the repository  *)
(* outside the sync path leave behind.                                     *)

(* gameUtils.create: new Game(gameData).save() with the data of the feed;  *)
(* the other paths take the defaults of the schema                         *)
Create(id, userId, token, mode, map, score) ==
    [_id |-> id, user_id |-> userId, game_token |-> token,
     map_id |-> map, map_name |-> map, game_mode |-> mode, total_score |-> score,
     game_state |-> "finished", round_count |-> 5, forbid_moving |-> FALSE,
     details_fetched |-> FALSE]

(* gameUtils.updateDetails: Game.findOneAndUpdate({ game_token }, updateData), *)
(* which sets the given paths and runs no validator                            *)
UpdateDetails(coll, token, updateData) ==
    {IF g.game_token = token
     THEN [f \in DOMAIN g |-> IF f \in DOMAIN updateData THEN updateData[f] ELSE g[f]]
     ELSE g : g \in coll}

(* gameUtils.markDetailsAsFetched *)
MarkDetailsAsFetched(coll, token) == UpdateDetails(coll, token, [details_fetched |-> TRUE])

(* a game created from the feed alone, with rounds stored by roundUtils.createMany *)
SeedGame == [NewGame(1, "u1", "g2", Payload("five")) EXCEPT !.details_fetched = FALSE]
SeedRounds == InsertMany(<<>>, BuildRounds(1, "u1", Payload("five"), 1))

(* "g1" as gameUtils.create stores it from the feed alone *)
CreatedGame == Create(1, "u1", "g1", "standard", "world", 5000)

Stores == {[games |-> {}, rounds |-> <<>>, nextId |-> 1],
           [games |-> {SeedGame}, rounds |-> SeedRounds, nextId |-> 2],
           \* created, then marked as fetched: no round was ever stored
           [games |-> MarkDetailsAsFetched({CreatedGame}, "g1"), rounds |-> <<>>, nextId |-> 2],
           \* created, then updated with paths the schema would reject
           [games |-> UpdateDetails({CreatedGame}, "g1",
                         [details_fetched |-> TRUE, round_count |-> 3, game_state |-> "started"]),
            rounds |-> <<>>, nextId |-> 2],
           \* created, then another score written: not fetched, no round
           [games |-> UpdateDetails({CreatedGame}, "g1", [total_score |-> 1]),
            rounds |-> <<>>, nextId |-> 2]}

Users == {"u1", "u2"}
Cancels == 1..MaxCancels

NoStatus == [status |-> "none"]
HandlerIdle == [pc |-> "none", userId |-> "", maxPages |-> 0, sawActive |-> FALSE,
                sawOther |-> FALSE, cancelAt |-> -1, found |-> "", final |-> ""]
CancelIdle == [pc |-> "none", userId |-> "", code |-> 0, before |-> "", changed |-> FALSE]

----------------------------------------------------------------------------
(* Spec: runs of syncAllData one after the other (as the test calls it),   *)
(* with the default page cap, next to the other writers of the store.      *)

SyncFeeds == {"single", "five", "batch"}

Init ==
    /\ \E f \in SyncFeeds : feed = Feed(f)
    /\ \E st \in Stores : games = st.games /\ rounds = st.rounds /\ nextId = st.nextId
    /\ pager = [r \in Runs |-> PagerIdle]
    /\ sync = [r \in Runs |-> SyncIdle]
    /\ trace = [r \in Runs |-> TraceEmpty]
    /\ syncStatus = [u \in Users |-> NoStatus]
    /\ handler = [r \in Runs |-> HandlerIdle]
    /\ timers = {}
    /\ cancelReq = [c \in Cancels |-> CancelIdle]
    /\ writes = 0
    /\ clearing = {}
    /\ remote = [t \in Tokens |-> FirstVersion(t)]

SyncCaps == {1, DefaultMaxPages}

(* service.syncAllData(maxPages) is called when no earlier run is still going *)
StartRun(r) ==
    /\ sync[r].pc = "idle"
    /\ \A q \in Runs : q < r => sync[q].pc = "done"
    /\ \E cap \in SyncCaps :
          /\ r > 1 => cap = pager[1].maxPages
          /\ CallSyncAllData(r, "u1", cap)
    /\ UNCHANGED <<feed, writes, clearing, games, rounds, nextId, syncStatus, handler, timers, cancelReq, remote>>

Changes == Cardinality({t \in Tokens : remote[t] # FirstVersion(t)})

(* Upstream corrects a game between two runs. *)
UpstreamCorrection ==
    /\ \A r \in Runs : sync[r].pc \in {"idle", "done"}
    /\ \E r \in Runs : sync[r].pc = "idle"
    /\ Changes < MaxCorrections
    /\ \E t \in Tokens : \E name \in Corrections(t) \ {remote[t]} :
          remote' = [remote EXCEPT ![t] = name]
    /\ UNCHANGED <<feed, writes, clearing, pager, sync, games, rounds, nextId, syncStatus, handler,
                   timers, cancelReq, trace>>

(* The writers of the repository outside the sync path.  They are called  *)
(* by other code of the process while a run waits at one of its awaits,    *)
(* or between two runs.                                                    *)

WriterTokens == {"g1"}

(* the GameUpdateDTO values a caller passes to gameUtils.updateDetails *)
UpdateInputs ==
    {[details_fetched |-> FALSE],
     [total_score |-> 1],
     [details_fetched |-> TRUE, round_count |-> 3, game_state |-> "started"]}

(* gameUtils.create(gameData): new Game(gameData).save(); the unique index *)
(* on game_token rejects a second game with the token                      *)
GameUtilsCreate ==
    /\ writes < MaxWrites
    /\ \E t \in WriterTokens :
          LET game == Create(nextId, "u1", t, "standard", "world", 5000) IN
          games' = IF GameValid(game) /\ ~\E g \in games : g.game_token = t
                   THEN games \cup {game}
                   ELSE games
    /\ nextId' = nextId + 1
    /\ writes' = writes + 1
    /\ UNCHANGED <<feed, clearing, pager, sync, rounds, syncStatus, handler, timers, cancelReq, remote, trace>>

(* gameUtils.updateDetails(gameToken, updateData) *)
GameUtilsUpdateDetails ==
    /\ writes < MaxWrites
    /\ \E t \in WriterTokens, updateData \in UpdateInputs :
          games' = UpdateDetails(games, t, updateData)
    /\ writes' = writes + 1
    /\ UNCHANGED <<feed, clearing, pager, sync, rounds, nextId, syncStatus, handler, timers, cancelReq,
                   remote, trace>>

(* gameUtils.markDetailsAsFetched(gameToken), and game.markDetailsAsFetched() *)
(* on a document just loaded                                                  *)
GameUtilsMarkDetailsAsFetched ==
    /\ writes < MaxWrites
    /\ \E t \in WriterTokens : games' = MarkDetailsAsFetched(games, t)
    /\ writes' = writes + 1
    /\ UNCHANGED <<feed, clearing, pager, sync, rounds, nextId, syncStatus, handler, timers, cancelReq,
                   remote, trace>>

(* the game_id values a caller passes: the games of the writers' tokens, and *)
(* an id no game has                                                         *)
RoundOwners == {g._id : g \in {h \in games : h.game_token \in WriterTokens}} \cup {NoDoc._id}

(* roundUtils.createMany(roundsData): Round.insertMany, here of one first round *)
RoundUtilsCreateMany ==
    /\ writes < MaxWrites
    /\ \E gameId \in RoundOwners :
          LET roundsData == <<BuildRound(gameId, "u1", Payload("one"), 1)>> IN
          rounds' = IF InsertManyOk(roundsData) THEN InsertMany(rounds, roundsData) ELSE rounds
    /\ writes' = writes + 1
    /\ UNCHANGED <<feed, clearing, pager, sync, games, nextId, syncStatus, handler, timers, cancelReq,
                   remote, trace>>

Collections == {"games", "rounds"}

(* clearDatabase() up to Promise.all: db.collections() returned and a      *)
(* deleteMany({}) was sent for every collection                            *)
ClearDatabase ==
    /\ writes < MaxWrites
    /\ clearing = {}
    /\ clearing' = Collections
    /\ writes' = writes + 1
    /\ UNCHANGED <<feed, pager, sync, games, rounds, nextId, syncStatus, handler, timers,
                   cancelReq, remote, trace>>

(* clearDatabase(): the deleteMany({}) of one collection returned *)
CollectionCleared(c) ==
    /\ c \in clearing
    /\ clearing' = clearing \ {c}
    /\ games' = IF c = "games" THEN {} ELSE games
    /\ rounds' = IF c = "rounds" THEN <<>> ELSE rounds
    /\ UNCHANGED <<feed, writes, pager, sync, nextId, syncStatus, handler, timers, cancelReq,
                   remote, trace>>

Writer ==
    \/ GameUtilsCreate \/ GameUtilsUpdateDetails \/ GameUtilsMarkDetailsAsFetched
    \/ RoundUtilsCreateMany \/ ClearDatabase
    \/ \E c \in Collections : CollectionCleared(c)

Next == UpstreamCorrection \/ Writer \/ \E r \in Runs : StartRun(r) \/ SyncStep(r)

Spec == Init /\ [][Next]_vars

----------------------------------------------------------------------------
(* RunSpec: the same runs with nothing else writing to the store, against  *)
(* a remote that does not change while the runs go on: the corrected       *)
(* payloads are there from the start.                                      *)

Remotes ==
    {rm \in [Tokens -> PayloadNames] :
        /\ \A t \in Tokens : rm[t] = FirstVersion(t) \/ rm[t] \in Corrections(t)
        /\ Cardinality({t \in Tokens : rm[t] # FirstVersion(t)}) <= MaxCorrections}

RunInit ==
    /\ \E f \in SyncFeeds : feed = Feed(f)
    /\ \E st \in Stores : games = st.games /\ rounds = st.rounds /\ nextId = st.nextId
    /\ pager = [r \in Runs |-> PagerIdle]
    /\ sync = [r \in Runs |-> SyncIdle]
    /\ trace = [r \in Runs |-> TraceEmpty]
    /\ syncStatus = [u \in Users |-> NoStatus]
    /\ handler = [r \in Runs |-> HandlerIdle]
    /\ timers = {}
    /\ cancelReq = [c \in Cancels |-> CancelIdle]
    /\ writes = 0
    /\ clearing = {}
    /\ remote \in Remotes

RunNext == \E r \in Runs : StartRun(r) \/ SyncStep(r)

RunSpec == RunInit /\ [][RunNext]_vars

----------------------------------------------------------------------------
(* PagerSpec: one call of getAllGameTokens against every feed and cap *)

PagerCaps == {1, 3, POSITIVE_INFINITY}

PagerInit ==
    /\ \E f \in FeedNames : feed = Feed(f)
    /\ \E cap \in PagerCaps, up \in Upstreams :
          pager = [r \in Runs |->
                     IF r = 1 THEN [PagerStart(cap) EXCEPT !.upstream = up] ELSE PagerIdle]
    /\ games = {} /\ rounds = <<>> /\ nextId = 1
    /\ sync = [r \in Runs |-> SyncIdle]
    /\ trace = [r \in Runs |-> TraceEmpty]
    /\ syncStatus = [u \in Users |-> NoStatus]
    /\ handler = [r \in Runs |-> HandlerIdle]
    /\ timers = {}
    /\ cancelReq = [c \in Cancels |-> CancelIdle]
    /\ writes = 0
    /\ clearing = {}
    /\ remote = [t \in Tokens |-> FirstVersion(t)]

PagerNext == FeedPageOk(1) \/ FeedPageFail(1) \/ RetryDelayOver(1) \/ PageCapReached(1)

PagerSpec == PagerInit /\ [][PagerNext]_vars

(* the event loop runs every pending continuation of the call *)
PagerLiveSpec == PagerSpec /\ WF_vars(PagerNext)

----------------------------------------------------------------------------
(* routes/sync.ts.  Request q of POST /refresh, when accepted, starts run q. *)
(* RouteSpec: concurrent refresh requests and one cancel request, the        *)
(* remote answering every request of the runs.                               *)
(* Every user exists and has a session cookie.                               *)

(* initialStatus *)
InitialStatus ==
    [status |-> "starting", startTime |-> TRUE, endTime |-> FALSE, phase |-> "initialization",
     gamesProcessed |-> 0, newGames |-> 0, updatedGames |-> 0, errors |-> <<>>,
     result |-> <<>>]

(* { ...undefined } is the empty object: the fields of an absent entry *)
Spread(entry) ==
    IF entry = NoStatus
    THEN [InitialStatus EXCEPT !.status = "", !.startTime = FALSE, !.phase = ""]
    ELSE entry

(* the entry the background callback writes before it calls syncAllData *)
RunningStatus(entry) == [Spread(entry) EXCEPT !.status = "running", !.phase = "fetching_games"]

(* the entry written after syncAllData returned *)
FinalStatus(entry, result) ==
    [Spread(entry) EXCEPT !.status = IF result.success THEN "completed" ELSE "failed",
                          !.endTime = TRUE, !.result = <<result>>, !.phase = "completed",
                          !.gamesProcessed = result.gamesProcessed,
                          !.newGames = result.newGames,
                          !.updatedGames = result.updatedGames,
                          !.errors = result.errors]

(* the entry POST /cancel writes *)
CancelledStatus(entry) == [entry EXCEPT !.status = "cancelled", !.endTime = TRUE,
                                        !.phase = "cancelled"]

(* a run of the user is registered or executing *)
Active(q) == handler[q].pc \in {"queued", "running"}
ActiveRuns(u) == {q \in Runs : handler[q].userId = u /\ Active(q)}
Executing(q) == handler[q].pc = "running"

(* syncAllData returned and the callback's continuation has not run yet *)
Returned(q) == handler[q].pc = "running" /\ sync[q].pc = "done"

(* the guard of POST /refresh: syncStatus.has(userId) *)
AlreadyRunning(u) == syncStatus[u] # NoStatus

(* POST /refresh arrives: 409 when the user has an entry, else the handler *)
(* awaits User.findById.  The users are interchangeable: the first request *)
(* is u1's.                                                                *)
Refresh(q, u) ==
    /\ handler[q].pc = "none"
    /\ \A p \in Runs : p < q => handler[p].pc # "none"
    /\ q = 1 => u = "u1"
    /\ handler' = [handler EXCEPT ![q] =
          [@ EXCEPT !.userId = u, !.maxPages = DefaultMaxPages,
                    !.sawActive = (ActiveRuns(u) # {}),
                    !.sawOther = (\E v \in Users \ {u} : ActiveRuns(v) # {}),
                    !.pc = IF AlreadyRunning(u) THEN "rejected" ELSE "findUser"]]
    /\ UNCHANGED <<feed, writes, clearing, pager, sync, games, rounds, nextId, syncStatus, timers,
                   cancelReq, remote, trace>>

(* User.findById returned: the entry is set, the run is queued with *)
(* setImmediate and the response is sent                            *)
Register(q) ==
    /\ handler[q].pc = "findUser"
    /\ syncStatus' = [syncStatus EXCEPT ![handler[q].userId] = InitialStatus]
    /\ handler' = [handler EXCEPT ![q].pc = "queued"]
    /\ UNCHANGED <<feed, writes, clearing, pager, sync, games, rounds, nextId, timers, cancelReq, remote, trace>>

(* the setImmediate callback: status 'running', then syncAllData is called *)
Background(q) ==
    /\ handler[q].pc = "queued"
    /\ syncStatus' = [syncStatus EXCEPT ![handler[q].userId] = RunningStatus(@)]
    /\ handler' = [handler EXCEPT ![q].pc = "running"]
    /\ CallSyncAllData(q, handler[q].userId, handler[q].maxPages)
    /\ UNCHANGED <<feed, writes, clearing, games, rounds, nextId, timers, cancelReq, remote>>

(* syncAllData returned: the final status is written.  The continuation *)
(* runs as a microtask right after the last step of syncAllData, which  *)
(* touches no state another handler reads, so a step taken in between   *)
(* could as well have been taken before that last step.                 *)
Finish(q) ==
    /\ Returned(q)
    /\ LET u == handler[q].userId
           final == FinalStatus(syncStatus[u], sync[q].result)
       IN /\ syncStatus' = [syncStatus EXCEPT ![u] = final]
          /\ handler' = [handler EXCEPT ![q].pc = "lastSync",
                                        ![q].found = syncStatus[u].status,
                                        ![q].final = final.status]
    /\ UNCHANGED <<feed, writes, clearing, pager, sync, games, rounds, nextId, timers, cancelReq, remote, trace>>

(* User.findByIdAndUpdate returned: the 1 hour cleanup is scheduled *)
ScheduleCleanup(q) ==
    /\ handler[q].pc = "lastSync"
    /\ timers' = timers \cup {[userId |-> handler[q].userId, kind |-> "finished", id |-> q]}
    /\ handler' = [handler EXCEPT ![q].pc = "finished"]
    /\ UNCHANGED <<feed, writes, clearing, pager, sync, games, rounds, nextId, syncStatus, cancelReq,
                   remote, trace>>

(* the response of POST /cancel for a registry entry: 404, 400 or 200 *)
CancelCode(status) ==
    IF status = NoStatus THEN 404
    ELSE IF status.status \in {"completed", "failed"} THEN 400
    ELSE 200

(* POST /cancel/:userId, a handler without await.  The request keeps, for *)
(* the properties, the status it found and whether it changed the entry.  *)
Cancel(c, u) ==
    /\ cancelReq[c].pc = "none"
    /\ \A b \in Cancels : b < c => cancelReq[b].pc # "none"
    /\ LET status == syncStatus[u]
           code == CancelCode(status)
       IN /\ IF code = 200
             THEN /\ syncStatus' = [syncStatus EXCEPT ![u] = CancelledStatus(status)]
                  /\ timers' = timers \cup {[userId |-> u, kind |-> "cancelled", id |-> c]}
                  /\ handler' = [q \in Runs |->
                        IF handler[q].userId = u /\ Executing(q) /\ handler[q].cancelAt = -1
                        THEN [handler[q] EXCEPT !.cancelAt = sync[q].i]
                        ELSE handler[q]]
             ELSE UNCHANGED <<syncStatus, timers, handler>>
          /\ cancelReq' = [cancelReq EXCEPT ![c] =
                [pc |-> "done", userId |-> u, code |-> code, before |-> status.status,
                 changed |-> (code = 200 /\ CancelledStatus(status) # status)]]
    /\ UNCHANGED <<feed, writes, clearing, pager, sync, games, rounds, nextId, remote, trace>>

(* A faulty variant of the cleanup that empties the whole registry. *)
Cleared(registry, userId) == [u \in Users |-> NoStatus]

(* syncStatus.delete(userId) *)
Deleted(registry, userId) == [registry EXCEPT ![userId] = NoStatus]

(* a cleanup timer fires: syncStatus.delete(userId).  Timers run in their *)
(* own phase of the event loop, never between a handler and the           *)
(* setImmediate callback it queued.                                       *)
TimerFires(t) ==
    /\ t \in timers
    /\ \A q \in Runs : handler[q].pc # "queued"
    /\ timers' = timers \ {t}
    /\ syncStatus' = Deleted(syncStatus, t.userId)
    /\ UNCHANGED <<feed, writes, clearing, pager, sync, games, rounds, nextId, handler, cancelReq, remote, trace>>

(* the steps of a run whose list-page requests are answered *)
RouteSyncStep(r) ==
    \/ FeedPageOk(r) \/ TokensReturned(r) \/ FindExisting(r)
    \/ FetchDetailsOk(r) \/ FetchDetailsFail(r)
    \/ LoadGame(r) \/ SaveGame(r) \/ DeleteRounds(r) \/ InsertRounds(r)
    \/ Delay(r) \/ UpdateLastSync(r)

(* the steps of a run whose every request is answered *)
AnsweredSyncStep(r) ==
    \/ FeedPageOk(r) \/ TokensReturned(r) \/ FindExisting(r) \/ FetchDetailsOk(r)
    \/ LoadGame(r) \/ SaveGame(r) \/ DeleteRounds(r) \/ InsertRounds(r)
    \/ Delay(r) \/ UpdateLastSync(r)

RouteFeeds == {"single"}

RouteInit ==
    /\ \E f \in RouteFeeds : feed = Feed(f)
    /\ games = {} /\ rounds = <<>> /\ nextId = 1
    /\ pager = [r \in Runs |-> PagerIdle]
    /\ sync = [r \in Runs |-> SyncIdle]
    /\ trace = [r \in Runs |-> TraceEmpty]
    /\ syncStatus = [u \in Users |-> NoStatus]
    /\ handler = [r \in Runs |-> HandlerIdle]
    /\ timers = {}
    /\ cancelReq = [c \in Cancels |-> CancelIdle]
    /\ writes = 0
    /\ clearing = {}
    /\ remote = [t \in Tokens |-> FirstVersion(t)]

RouteNext ==
    \/ \E q \in Runs, u \in Users : Refresh(q, u)
    \/ \E q \in Runs : Register(q) \/ Background(q) \/ Finish(q) \/ ScheduleCleanup(q)
    \/ \E q \in Runs : AnsweredSyncStep(q)
    \/ \E u \in Users : Cancel(1, u)
    \/ \E t \in timers : TimerFires(t)

RouteSpec == RouteInit /\ [][RouteNext]_vars

----------------------------------------------------------------------------
(* SerialSpec: the same routes with the refresh requests one after the     *)
(* other (a request arrives when the earlier ones were rejected or their   *)
(* runs have finished), and repeated cancel requests.                      *)

SerialFeeds == {"pair"}

SerialInit ==
    /\ \E f \in SerialFeeds : feed = Feed(f)
    /\ games = {} /\ rounds = <<>> /\ nextId = 1
    /\ pager = [r \in Runs |-> PagerIdle]
    /\ sync = [r \in Runs |-> SyncIdle]
    /\ trace = [r \in Runs |-> TraceEmpty]
    /\ syncStatus = [u \in Users |-> NoStatus]
    /\ handler = [r \in Runs |-> HandlerIdle]
    /\ timers = {}
    /\ cancelReq = [c \in Cancels |-> CancelIdle]
    /\ writes = 0
    /\ clearing = {}
    /\ remote = [t \in Tokens |-> FirstVersion(t)]

SerialRefresh(q, u) ==
    /\ \A p \in Runs : p < q => handler[p].pc \in {"rejected", "finished"}
    /\ Refresh(q, u)

SerialNext ==
    \/ \E q \in Runs, u \in Users : SerialRefresh(q, u)
    \/ \E q \in Runs : Register(q) \/ Background(q) \/ Finish(q) \/ ScheduleCleanup(q)
    \/ \E q \in Runs : RouteSyncStep(q)
    \/ \E c \in Cancels, u \in Users : Cancel(c, u)
    \/ \E t \in timers : TimerFires(t)

SerialSpec == SerialInit /\ [][SerialNext]_vars

----------------------------------------------------------------------------
(* Vocabulary of the properties *)

Range(seq) == {seq[k] : k \in DOMAIN seq}
NoDuplicates(seq) == \A a, b \in DOMAIN seq : a # b => seq[a] # seq[b]
Finished(r) == sync[r].pc = "done"
FailedFetches(r) == {k \in DOMAIN trace[r].fetches : ~trace[r].fetches[k].ok}
FetchesOf(r, t) == {k \in DOMAIN trace[r].fetches : trace[r].fetches[k].token = t}
SavesOf(r, t) == {k \in DOMAIN trace[r].saves : trace[r].saves[k].token = t}
OkPages(r) == SelectSeq(trace[r].pages, LAMBDA pg : pg.ok)
AllPagesOk(r) == \A k \in DOMAIN trace[r].pages : trace[r].pages[k].ok

GamesWith(coll, t) == {g \in coll : g.game_token = t}
RoundsIn(coll, gameId) == SelectSeq(coll, LAMBDA d : d.game_id = gameId)

(* the rounds the schema stores for a payload *)
ExpectedRounds(gameId, userId, name) ==
    InsertMany(<<>>, BuildRounds(gameId, userId, Payload(name), 1))

(* a payload the schemas of games and rounds accept *)
PayloadValid(name) ==
    /\ GameValid(NewGame(1, "u1", "g1", Payload(name)))
    /\ InsertManyOk(BuildRounds(1, "u1", Payload(name), 1))

(* token t is stored in snapshot snap with the rounds of payload name *)
PersistedAs(snap, t, userId, name) ==
    \E g \in snap.games :
        /\ g.game_token = t
        /\ g.details_fetched
        /\ RoundsIn(snap.rounds, g._id) = ExpectedRounds(g._id, userId, name)

----------------------------------------------------------------------------
(* C1: Partial failure.  In a finished run in which exactly one detail      *)
(* fetch failed, no discovered identifier was already processed and the     *)
(* remote payloads of the others are valid: every other identifier was      *)
(* fetched (the run went on past the failure), gamesProcessed is the number *)
(* of identifiers minus one, errors has exactly one entry and it names the  *)
(* failed identifier, success is false, and the other identifiers are       *)
(* persisted with their rounds.                                             *)
C1_PartialFailure ==
    \A r \in Runs :
        LET tr == trace[r]
            toks == sync[r].gameTokens
            res == sync[r].result
        IN (/\ Finished(r)
            /\ Cardinality(FailedFetches(r)) = 1
            /\ \A t \in Range(toks) :
                  /\ \A g \in GamesWith(tr.before.games, t) : ~g.details_fetched
                  /\ PayloadValid(tr.before.remote[t]))
           => LET bad == tr.fetches[CHOOSE k \in FailedFetches(r) : TRUE].token IN
              /\ \A t \in Range(toks) \ {bad} :
                    \E k \in FetchesOf(r, t) : tr.fetches[k].ok
              /\ res.gamesProcessed = Len(toks) - 1
              /\ Len(res.errors) = 1
              /\ res.errors[1].token = bad
              /\ res.success = FALSE
              /\ \A t \in Range(toks) \ {bad} :
                    PersistedAs(tr.after, t, sync[r].userId, tr.before.remote[t])

(* five identifiers, the third fails, four are processed *)
C1_Witness ==
    \E r \in Runs :
        /\ Finished(r)
        /\ Len(sync[r].gameTokens) = 5
        /\ Len(trace[r].fetches) = 5
        /\ FailedFetches(r) = {3}
        /\ sync[r].result.gamesProcessed = 4
        /\ Len(sync[r].result.errors) = 1
        /\ sync[r].result.errors[1].token = sync[r].gameTokens[3]

(* C2: Dedup.  getAllGameTokens never lists an identifier twice, whether it *)
(* is repeated on one page, in a batch payload or on a later page; a run    *)
(* requests the details of an identifier at most once, exactly once when it *)
(* is not skipped, saves it at most once, and the store holds at most one   *)
(* game per identifier.                                                     *)
C2_Dedup ==
    \A r \in Runs :
        /\ NoDuplicates(pager[r].gameTokens)
        /\ \A t \in Tokens :
              /\ Cardinality(FetchesOf(r, t)) <= 1
              /\ Cardinality(SavesOf(r, t)) <= 1
              /\ Cardinality(GamesWith(games, t)) <= 1
              /\ (Finished(r) /\ t \in Range(sync[r].gameTokens)
                    /\ t \notin Range(trace[r].skips))
                 => Cardinality(FetchesOf(r, t)) = 1

(* "g3" is on both pages of the feed and was fetched and saved once *)
C2_Witness ==
    \E r \in Runs :
        /\ Finished(r)
        /\ feed = Feed("five")
        /\ Len(OkPages(r)) = 2
        /\ Cardinality(FetchesOf(r, "g3")) = 1
        /\ Cardinality(SavesOf(r, "g3")) = 1
        /\ Cardinality(GamesWith(games, "g3")) = 1

(* C3: Idempotent re-sync.  Two runs in succession against the same feed,   *)
(* the detail payloads unchanged, the first returning no entry in errors:   *)
(* the second creates no game and leaves games and rounds as the first left *)
(* them.                                                                    *)
C3_Idempotent ==
    \A r \in Runs :
        (/\ r + 1 \in Runs
         /\ Finished(r) /\ Finished(r + 1)
         /\ sync[r].result.errors = <<>>
         /\ trace[r + 1].before.remote = trace[r].before.remote)
        => /\ sync[r + 1].result.newGames = 0
           /\ trace[r + 1].after.games = trace[r].after.games
           /\ trace[r + 1].after.rounds = trace[r].after.rounds

(* C4 as claimed: after a finished run without failed requests, every       *)
(* discovered identifier that had a stored game before the run has exactly  *)
(* the rounds of the payload the remote now answers with.                   *)
C4_Original ==
    \A r \in Runs :
        (/\ Finished(r)
         /\ FailedFetches(r) = {}
         /\ AllPagesOk(r))
        => \A t \in Range(sync[r].gameTokens) :
              \A g \in GamesWith(trace[r].before.games, t) :
                 PayloadValid(trace[r].before.remote[t])
                 => RoundsIn(trace[r].after.rounds, g._id)
                      = ExpectedRounds(g._id, sync[r].userId, trace[r].before.remote[t])

(* C4, amended: when a parent is re-synced, that is when it is not short-  *)
(* circuited by the skip rule and saveGameData completes for it, its rounds *)
(* are exactly those built from the payload just fetched: the old rounds    *)
(* are gone and the new ones are stored once.                               *)
C4_ChildReplacement ==
    \A r \in Runs :
        /\ sync[r].pc = "delay"
           => RoundsOf(sync[r].game._id)
                = ExpectedRounds(sync[r].game._id, sync[r].userId, sync[r].gameDetails)
        /\ Finished(r)
           => \A k \in DOMAIN trace[r].saves :
                 \E g \in trace[r].after.games :
                    /\ g.game_token = trace[r].saves[k].token
                    /\ RoundsIn(trace[r].after.rounds, g._id)
                         = ExpectedRounds(g._id, sync[r].userId, trace[r].saves[k].payload)

(* a stored game with 5 rounds was re-synced with a 3-round payload: 3 rounds *)
C4_Witness ==
    \E r \in Runs :
        /\ Finished(r)
        /\ \E k \in DOMAIN trace[r].saves :
              /\ trace[r].saves[k].token = "g2"
              /\ trace[r].saves[k].payload = "three"
        /\ \E g \in trace[r].before.games :
              /\ g.game_token = "g2"
              /\ Len(RoundsIn(trace[r].before.rounds, g._id)) = 5
              /\ Len(RoundsIn(trace[r].after.rounds, g._id)) = 3

(* C5: every stored round has is_correct_country equal to the equality of   *)
(* the actual and the guessed country code after case normalisation.        *)
C5_CaseNormalized ==
    \A k \in DOMAIN rounds :
        rounds[k].is_correct_country
          = (ToUpperCase(rounds[k].country_actual) = ToUpperCase(rounds[k].country_guess))

(* C6: the concrete scenario.  One page without next token, one completion  *)
(* entry, a payload of one round and one guess (5000 points, 0 m), an empty *)
(* store and no failed request: one game with details_fetched, one round    *)
(* numbered 1 with score 5000 and distance_km 0, and the result             *)
(* {success, gamesProcessed 1, newGames 1, errors []}.                      *)
C6_Scenario ==
    (/\ feed = Feed("single")
     /\ Finished(1)
     /\ trace[1].before.games = {} /\ trace[1].before.rounds = <<>>
     /\ AllPagesOk(1) /\ FailedFetches(1) = {}
     /\ trace[1].before.remote["g1"] = "one")
    => LET snap == trace[1].after
           res == sync[1].result
       IN /\ Cardinality(snap.games) = 1
          /\ \A g \in snap.games : g.game_token = "g1" /\ g.details_fetched
          /\ Len(snap.rounds) = 1
          /\ snap.rounds[1].round_number = 1
          /\ snap.rounds[1].score = 5000
          /\ snap.rounds[1].distance_km = [km |-> 0, m |-> 0]
          /\ \A g \in snap.games : snap.rounds[1].game_id = g._id
          /\ res.success = TRUE
          /\ res.gamesProcessed = 1
          /\ res.newGames = 1
          /\ res.errors = <<>>

C6_Witness ==
    /\ feed = Feed("single")
    /\ Finished(1)
    /\ trace[1].before.games = {} /\ trace[1].before.rounds = <<>>
    /\ AllPagesOk(1) /\ FailedFetches(1) = {}
    /\ Len(trace[1].saves) = 1
    /\ sync[1].result.success

RECURSIVE TrailingEmpty(_)
(* how many of the last pages of the log brought no new identifier *)
TrailingEmpty(log) ==
    IF log = <<>> \/ log[Len(log)].new # 0 THEN 0
    ELSE 1 + TrailingEmpty(SubSeq(log, 1, Len(log) - 1))

EveryPageHasNext == \A k \in DOMAIN feed : feed[k].paginationToken # 0

(* C7: Termination heuristic.  The consecutive count is the number of the   *)
(* last successfully fetched pages without a new identifier (a page with a  *)
(* new identifier resets it to 0); once it is 3 no further page is          *)
(* requested; and without a page cap, on a feed whose every page carries a  *)
(* next token, the pagination stops exactly then.                           *)
C7_Termination ==
    LET p == pager[1]
        z == TrailingEmpty(OkPages(1))
    IN /\ p.emptyPagesCount = z
       /\ z <= 3
       /\ z = 3 => p.pc = "done"
       /\ (p.pc = "done" /\ p.maxPages = POSITIVE_INFINITY /\ EveryPageHasNext) => z = 3

(* pages 4-6 of the endless feed repeat known identifiers: page 7 is never  *)
(* requested, although a list-page request failed on the way                *)
C7_Witness ==
    /\ feed = Feed("endless")
    /\ pager[1].maxPages = POSITIVE_INFINITY
    /\ pager[1].pc = "done"
    /\ Len(OkPages(1)) = 6
    /\ Len(trace[1].pages) > 6
    /\ \A k \in DOMAIN trace[1].pages : trace[1].pages[k].cursor # 7
    /\ pager[1].gameTokens = <<"g1", "g2", "g3">>

(* C8: At most one concurrent run per user.  A refresh request that       *)
(* arrives while a run of the same user is registered or executing is     *)
(* rejected with 409, and at no time do two runs of one user execute.     *)
C8_AtMostOneRun ==
    /\ \A q \in Runs : handler[q].sawActive => handler[q].pc = "rejected"
    /\ \A u \in Users :
          Cardinality({q \in Runs : handler[q].userId = u /\ Executing(q)}) <= 1

(* C9: Cooperative cancellation.  After a cancel was accepted while the   *)
(* run was processing identifier number cancelAt, no detail fetch, game   *)
(* write or round write is started for a later identifier.                *)
C9_CooperativeCancel ==
    \A q \in Runs :
       handler[q].cancelAt >= 1 =>
          ~(/\ sync[q].i > handler[q].cancelAt
            /\ sync[q].pc \in {"fetch", "findGame", "saveGame", "deleteRounds",
                               "insertRounds"})

(* C10: Failed only on a run-level fatal condition.  A run that attempted *)
(* every identifier and had some detail fetches fail ends as completed,   *)
(* with success = false and a non-empty error list, never as failed.      *)
C10_FailedOnlyFatal ==
    \A q \in Runs :
       (/\ handler[q].final # ""
        /\ sync[q].gameTokens # <<>>
        /\ Len(trace[q].fetches) + Len(trace[q].skips) = Len(sync[q].gameTokens)
        /\ FailedFetches(q) # {})
       => /\ handler[q].final = "completed"
          /\ ~sync[q].result.success
          /\ sync[q].result.errors # <<>>

(* C11: Feed unavailable is fatal.  A finished run in which list pages     *)
(* were requested and every request failed reports success = false with an *)
(* error recorded.                                                         *)
C11_FeedUnavailableFatal ==
    \A r \in Runs :
       (Finished(r) /\ trace[r].pages # <<>> /\ OkPages(r) = <<>>)
       => /\ ~sync[r].result.success
          /\ sync[r].result.errors # <<>>

(* the identifiers of a run's list that had a game with details_fetched *)
(* when the run began                                                   *)
AlreadyFetched(r) ==
    {t \in Range(pager[r].gameTokens) :
        \E g \in trace[r].before.games : g.game_token = t /\ g.details_fetched}

(* C12: Skip rule.  For an identifier whose game had details_fetched when  *)
(* the run began, the run requests no details, saves nothing and records   *)
(* no error; its game and rounds stay as they were; once the loop has      *)
(* passed it, it is in the list of skipped identifiers; and the counters   *)
(* count saved identifiers only.                                           *)
C12_SkipRule ==
    \A r \in Runs :
       /\ \A t \in AlreadyFetched(r) :
             /\ FetchesOf(r, t) = {}
             /\ SavesOf(r, t) = {}
             /\ \A k \in DOMAIN sync[r].result.errors : sync[r].result.errors[k].token # t
             /\ GamesWith(games, t) = GamesWith(trace[r].before.games, t)
             /\ \A g \in GamesWith(games, t) :
                   RoundsOf(g._id) = RoundsIn(trace[r].before.rounds, g._id)
             /\ Finished(r) => t \in Range(trace[r].skips)
       /\ sync[r].pc \notin {"deleteRounds", "insertRounds"}
          => /\ sync[r].result.gamesProcessed = Len(trace[r].saves)
             /\ sync[r].result.newGames + sync[r].result.updatedGames = Len(trace[r].saves)

(* the second run found all five games fetched and skipped them *)
C12_Witness ==
    \E r \in Runs :
       /\ Finished(r)
       /\ Cardinality(AlreadyFetched(r)) = 5
       /\ Len(trace[r].skips) = 5
       /\ trace[r].fetches = <<>>
       /\ sync[r].result.gamesProcessed = 0

(* C13: Parent natural key uniqueness.  There is at most one game per      *)
(* game_token; a save is reported as new exactly when no game with the     *)
(* token existed when the run began, and otherwise the existing game, with *)
(* its _id, was updated; and in a finished run every identifier whose      *)
(* valid details were fetched was saved.                                   *)
C13_KeyUniqueness ==
    /\ \A t \in Tokens : Cardinality(GamesWith(games, t)) <= 1
    /\ \A r \in Runs :
          /\ \A k \in DOMAIN trace[r].saves :
                LET t == trace[r].saves[k].token
                    old == GamesWith(trace[r].before.games, t)
                IN /\ trace[r].saves[k].isNew = (old = {})
                   /\ \A g \in old : \E h \in GamesWith(games, t) : h._id = g._id
          /\ Finished(r)
             => \A k \in DOMAIN trace[r].fetches :
                   (trace[r].fetches[k].ok /\ PayloadValid(trace[r].fetches[k].payload))
                   => SavesOf(r, trace[r].fetches[k].token) # {}

(* one run saved an existing game as an update and another token as new *)
C13_Witness ==
    \E r \in Runs :
       /\ Finished(r)
       /\ \E k \in DOMAIN trace[r].saves :
             trace[r].saves[k].token = "g2" /\ ~trace[r].saves[k].isNew
       /\ \E k \in DOMAIN trace[r].saves :
             trace[r].saves[k].token = "g4" /\ trace[r].saves[k].isNew
       /\ Cardinality(games) = 2

(* C14: cancel succeeds exactly for a status that is starting or running;  *)
(* for a user without entry or with a cancelled, completed or failed entry *)
(* it fails and leaves the registry unchanged.                             *)
C14_CancelNotRunning ==
    \A c \in Cancels :
       cancelReq[c].pc = "done"
       => /\ (cancelReq[c].code = 200) = (cancelReq[c].before \in {"starting", "running"})
          /\ cancelReq[c].code # 200 => ~cancelReq[c].changed

(* C15: An authentication failure is never retried.  When the remote       *)
(* answers 401/403, the run issues a single list-page request and the      *)
(* call does not return normally.                                          *)
C15_AuthNotRetried ==
    pager[1].upstream = "unauthorized"
    => /\ pager[1].pageCount <= 1
       /\ pager[1].pc # "done"

(* C16: Bounded retries.  An identifier whose detail request failed fewer  *)
(* than 3 times in a run, the remote having an answer for it, has no entry *)
(* in errors.                                                              *)
C16_Retried ==
    \A r \in Runs : \A t \in Tokens :
       Cardinality({k \in FetchesOf(r, t) : ~trace[r].fetches[k].ok}) < 3
       => \A k \in DOMAIN sync[r].result.errors :
             ~(sync[r].result.errors[k].token = t /\ sync[r].result.errors[k].cause = "fetch")

(* C17: Pagination terminates without a page cap, also when every          *)
(* list-page request fails.                                                *)
C17_Terminates ==
    (pager[1].maxPages = POSITIVE_INFINITY) => <>(pager[1].pc = "done")

(* C18: Cancelled is terminal for a run.  The final status of a run is     *)
(* never written over a cancelled status.                                  *)
C18_CancelledTerminal ==
    \A q \in Runs : handler[q].found # "cancelled"

(* the user a step acts for: the user of the request, cancel or timer that *)
(* the step advances                                                       *)
ActsFor(u) ==
    \/ \E q \in Runs : handler'[q] # handler[q] /\ handler'[q].userId = u
    \/ \E c \in Cancels : cancelReq'[c] # cancelReq[c] /\ cancelReq'[c].userId = u
    \/ \E t \in timers \ timers' : t.userId = u

(* C19: Runs of different users are independent.  A step changes the       *)
(* status of a user only when it acts for that user, and a refresh request *)
(* is rejected only when its own user has an entry, whatever runs other    *)
(* users have.                                                             *)
C19_UsersIndependent ==
    [][/\ \A u \in Users : syncStatus'[u] # syncStatus[u] => ActsFor(u)
       /\ \A q \in Runs :
             (handler[q].pc = "none" /\ handler'[q].pc = "rejected")
             => syncStatus[handler'[q].userId] # NoStatus]_vars

(* u2's request was accepted while u1's run was active; u1's run was       *)
(* cancelled and its entry cleaned up while u2's run went on as running    *)
C19_Witness ==
    /\ handler[1].userId = "u1" /\ handler[2].userId = "u2"
    /\ handler[2].sawOther /\ Executing(2)
    /\ cancelReq[1].userId = "u1" /\ cancelReq[1].code = 200
    /\ syncStatus["u1"] = NoStatus
    /\ syncStatus["u2"].status = "running"

(* C20: Progress reporting.  While a run is executing under its running    *)
(* entry, the processed count of the entry is the number of identifiers    *)
(* the run has processed so far.                                           *)
C20_Progress ==
    \A q \in Runs :
       (Executing(q) /\ syncStatus[handler[q].userId].status = "running")
       => syncStatus[handler[q].userId].gamesProcessed = sync[q].result.gamesProcessed

(* the fields of a game document that saveGameData takes from a payload *)
FromPayload(g, d) ==
    /\ g.game_mode = d.mode
    /\ g.map_id = d.map
    /\ g.map_name = d.mapName
    /\ g.total_score = ParseInt(d.player.totalScore.amount)
    /\ g.game_state = d.state
    /\ g.round_count = d.roundCount
    /\ g.forbid_moving = d.forbidMoving

(* C21: Whole-record replace on upsert.  When saveGameData has completed   *)
(* for a token that had a game, the stored game carries the mode, map,     *)
(* score, state, round count and constraint flags of the payload just      *)
(* fetched.                                                                *)
C21_WholeRecordReplace ==
    \A r \in Runs :
       (sync[r].pc = "delay" /\ ~sync[r].isNew)
       => FromPayload(FindGame(CurToken(r)), Payload(sync[r].gameDetails))

(* the position of an element in a sequence without duplicates *)
Position(seq, x) == CHOOSE k \in DOMAIN seq : seq[k] = x
Prefix(seq, n) == {seq[k] : k \in 1..n}
TokensOf(log) == [k \in DOMAIN log |-> log[k].token]

(* the elements of log are elements of seq, in the order of seq *)
InOrderOf(log, seq) ==
    /\ Range(log) \subseteq Range(seq)
    /\ \A a, b \in DOMAIN log : a < b => Position(seq, log[a]) < Position(seq, log[b])

(* the identifiers of the page at a cursor, in the order of the page *)
PageTokens(cursor) ==
    ScanEntries(GetFeed(cursor).entries, [seen |-> {}, tokens |-> <<>>, new |-> 0]).tokens

(* where run r first met identifier t: <<page of the log, place on the page>> *)
FirstSeen(r, t) ==
    LET oks == OkPages(r)
        k == CHOOSE k \in DOMAIN oks :
                /\ t \in Range(PageTokens(oks[k].cursor))
                /\ \A j \in 1..(k - 1) : t \notin Range(PageTokens(oks[j].cursor))
    IN <<k, Position(PageTokens(oks[k].cursor), t)>>

Earlier(x, y) == x[1] < y[1] \/ (x[1] = y[1] /\ x[2] < y[2])

(* C22: Ordering.  The list getAllGameTokens returns is in the order in    *)
(* which the identifiers were first met on the fetched pages; the run      *)
(* keeps that list and works on its identifiers one after the other, in    *)
(* that order; and the rounds of a saved game are stored in increasing     *)
(* round_number, each built from the payload's round and guess at index    *)
(* round_number - 1.                                                       *)
C22_Ordering ==
    \A r \in Runs :
       LET toks == pager[r].gameTokens
           s == sync[r]
       IN /\ (pager[r].pc = "done" /\ s.pc = "tokens") =>
                /\ \A t \in Range(toks) :
                      \E k \in DOMAIN OkPages(r) :
                         t \in Range(PageTokens(OkPages(r)[k].cursor))
                /\ \A a, b \in DOMAIN toks :
                      a < b => Earlier(FirstSeen(r, toks[a]), FirstSeen(r, toks[b]))
          /\ s.gameTokens # <<>> =>
                /\ s.gameTokens = toks
                /\ InOrderOf(TokensOf(trace[r].fetches), toks)
                /\ InOrderOf(TokensOf(trace[r].saves), toks)
                /\ InOrderOf(trace[r].skips, toks)
                /\ Prefix(toks, s.i - 1)
                      \subseteq Range(TokensOf(trace[r].fetches)) \cup Range(trace[r].skips)
                /\ Range(TokensOf(trace[r].fetches)) \cup Range(trace[r].skips)
                      \subseteq Prefix(toks, s.i)
          /\ s.pc = "delay" =>
                LET stored == RoundsOf(s.game._id)
                    d == Payload(s.gameDetails)
                IN /\ \A a, b \in DOMAIN stored :
                         a < b => stored[a].round_number < stored[b].round_number
                   /\ \A k \in DOMAIN stored :
                         LET n == stored[k].round_number IN
                         /\ n \in DOMAIN d.rounds
                         /\ stored[k].country_actual = d.rounds[n].streakLocationCode
                         /\ stored[k].score = GuessAt(d, n).roundScoreInPoints

(* five identifiers on two overlapping pages were fetched in the order of *)
(* the feed, and the five rounds of "g2" are stored as rounds 1 to 5       *)
C22_Witness ==
    \E r \in Runs :
       /\ Finished(r)
       /\ TokensOf(trace[r].fetches) = <<"g1", "g2", "g3", "g4", "g5">>
       /\ \E g \in games :
             /\ g.game_token = "g2"
             /\ [k \in DOMAIN RoundsOf(g._id) |-> RoundsOf(g._id)[k].round_number]
                   = <<1, 2, 3, 4, 5>>
             /\ [k \in DOMAIN RoundsOf(g._id) |-> RoundsOf(g._id)[k].score]
                   = <<5000, 1000, 1500, 4000, 1000>>

(* the identifiers on the pages a run fetched *)
OnFetchedPages(r) ==
    UNION {Range(PageTokens(OkPages(r)[k].cursor)) : k \in DOMAIN OkPages(r)}

(* C23: Page failure keeps progress.  The request after a failed one is    *)
(* for the same cursor, the request after an answered page is for the      *)
(* cursor that page named, and the list holds every identifier of every    *)
(* fetched page, whether or not requests failed in between.                *)
C23_FailureKeepsProgress ==
    LET log == trace[1].pages IN
    /\ \A k \in DOMAIN log :
          k + 1 \in DOMAIN log =>
             log[k + 1].cursor = IF log[k].ok THEN GetFeed(log[k].cursor).paginationToken
                                 ELSE log[k].cursor
    /\ Range(pager[1].gameTokens) = OnFetchedPages(1)

(* the request for the second page of the feed failed once and was made   *)
(* again; the call returned the identifiers of both pages                 *)
C23_Witness ==
    /\ feed = Feed("five")
    /\ pager[1].pc = "done"
    /\ Len(trace[1].pages) = 3
    /\ trace[1].pages[1].ok /\ ~trace[1].pages[2].ok /\ trace[1].pages[3].ok
    /\ trace[1].pages[2].cursor = 2 /\ trace[1].pages[3].cursor = 2
    /\ pager[1].gameTokens = <<"g1", "g2", "g3", "g4", "g5">>

(* C24: End of feed.  An answered page without pagination token is the     *)
(* last request of the call: the call has returned, and its list holds the *)
(* identifiers of that page.                                               *)
C24_EndOfFeed ==
    LET log == trace[1].pages IN
    \A k \in DOMAIN log :
       (log[k].ok /\ GetFeed(log[k].cursor).paginationToken = 0)
       => /\ k = Len(log)
          /\ pager[1].pc = "done"
          /\ Range(PageTokens(log[k].cursor)) \subseteq Range(pager[1].gameTokens)

(* without a page cap the call ended on the second page of the feed, which *)
(* has no token, with the identifiers that page added                      *)
C24_Witness ==
    /\ feed = Feed("five")
    /\ pager[1].maxPages = POSITIVE_INFINITY
    /\ pager[1].pc = "done"
    /\ Len(trace[1].pages) = 2 /\ AllPagesOk(1)
    /\ GetFeed(trace[1].pages[2].cursor).paginationToken = 0
    /\ {"g4", "g5"} \subseteq Range(pager[1].gameTokens)

(* C25: Page cap.  With a finite maxPages the call never makes more than   *)
(* maxPages list-page requests, answered and failed ones together, and it  *)
(* returns, whatever the remote does.                                      *)
C25_PageCap ==
    /\ [](pager[1].maxPages # POSITIVE_INFINITY
            => /\ Len(trace[1].pages) <= pager[1].maxPages
               /\ pager[1].pageCount = Len(trace[1].pages))
    /\ (pager[1].maxPages # POSITIVE_INFINITY => <>(pager[1].pc = "done"))

(* with a cap of 3 and a remote that is down the call returned after three *)
(* failed requests                                                         *)
C25_Witness ==
    /\ pager[1].maxPages = 3
    /\ pager[1].upstream = "down"
    /\ pager[1].pc = "done"
    /\ Len(trace[1].pages) = 3
    /\ OkPages(1) = <<>>

(* the indexes of a payload at which both the round and the guess exist *)
Zipped(d) == {k \in DOMAIN d.rounds : d.rounds[k].present /\ GuessAt(d, k).present}
HasGap(d) == Zipped(d) # DOMAIN d.rounds

(* C26: Positional zip with non-fatal gaps.  When saveGameData has         *)
(* completed, the rounds of the game are those of the indexes at which the *)
(* payload has both a round and a guess, each numbered by its index and    *)
(* carrying the data of that index; a payload with a gap raises no error   *)
(* and its identifier is counted as processed.                             *)
C26_PositionalZip ==
    \A r \in Runs :
       /\ sync[r].pc = "delay" =>
             LET d == Payload(sync[r].gameDetails)
                 stored == RoundsOf(sync[r].game._id)
             IN /\ {stored[j].round_number : j \in DOMAIN stored} = Zipped(d)
                /\ Len(stored) = Cardinality(Zipped(d))
                /\ \A j \in DOMAIN stored :
                      LET n == stored[j].round_number IN
                      /\ stored[j].country_actual = d.rounds[n].streakLocationCode
                      /\ stored[j].score = d.player.guesses[n].roundScoreInPoints
                      /\ stored[j].country_guess = d.player.guesses[n].streakLocationCode
       /\ \A k \in DOMAIN trace[r].fetches :
             LET f == trace[r].fetches[k] IN
             (/\ f.ok /\ HasGap(Payload(f.payload))
              /\ \/ sync[r].i > Position(sync[r].gameTokens, f.token)
                 \/ sync[r].pc \in {"delay", "updateUser", "done"})
             => /\ SavesOf(r, f.token) # {}
                /\ \A e \in DOMAIN sync[r].result.errors : sync[r].result.errors[e].token # f.token
                /\ sync[r].result.gamesProcessed = Len(trace[r].saves)

(* "g5" has three rounds and no guess for the second: rounds 1 and 3 are *)
(* stored and the run counted all five identifiers                        *)
C26_Witness ==
    \E r \in Runs :
       /\ Finished(r)
       /\ sync[r].result.gamesProcessed = 5
       /\ sync[r].result.errors = <<>>
       /\ \E g \in games :
             /\ g.game_token = "g5"
             /\ [k \in DOMAIN RoundsOf(g._id) |-> RoundsOf(g._id)[k].round_number] = <<1, 3>>
             /\ [k \in DOMAIN RoundsOf(g._id) |-> RoundsOf(g._id)[k].score] = <<5000, 3000>>

(* the identifiers of the entries of a run's error list *)
ErrorTokens(r) == {sync[r].result.errors[k].token : k \in DOMAIN sync[r].result.errors}
SavedTokens(r) == Range(TokensOf(trace[r].saves))

(* C27: Count accounting.  gamesProcessed = newGames + updatedGames in     *)
(* every state; when the loop has finished, gamesProcessed, the number of  *)
(* skipped identifiers and the number of errors add up to the number of    *)
(* identifiers discovered, and every identifier is exactly one of saved,   *)
(* skipped or in error; before that they add up to the number of           *)
(* identifiers the loop has passed.                                        *)
C27_CountAccounting ==
    \A r \in Runs :
       LET res == sync[r].result
           toks == sync[r].gameTokens
           sum == res.gamesProcessed + Len(trace[r].skips) + Len(res.errors)
       IN /\ res.gamesProcessed = res.newGames + res.updatedGames
          /\ sync[r].pc = "check" => sum = sync[r].i - 1
          /\ (sync[r].pc \in {"updateUser", "done"} /\ toks # <<>>)
             => /\ sum = Len(toks)
                /\ res.gamesProcessed = Cardinality(SavedTokens(r))
                /\ Len(res.errors) = Cardinality(ErrorTokens(r))
                /\ SavedTokens(r) \cup Range(trace[r].skips) \cup ErrorTokens(r) = Range(toks)
                /\ SavedTokens(r) \cap Range(trace[r].skips) = {}
                /\ SavedTokens(r) \cap ErrorTokens(r) = {}
                /\ Range(trace[r].skips) \cap ErrorTokens(r) = {}

(* of five identifiers the first run saved four and recorded one error;   *)
(* the second run skipped those four and saved the fifth                  *)
C27_Witness ==
    /\ Finished(1) /\ Finished(2)
    /\ Len(sync[1].gameTokens) = 5 /\ Len(sync[2].gameTokens) = 5
    /\ sync[1].result.gamesProcessed = 4 /\ Len(sync[1].result.errors) = 1
    /\ trace[1].skips = <<>>
    /\ sync[2].result.gamesProcessed = 1 /\ Len(trace[2].skips) = 4
    /\ sync[2].result.errors = <<>>

(* C28: Skip flag soundness.  After a finished run, a game with            *)
(* details_fetched whose details the run fetched has the rounds built from *)
(* that payload; and an identifier whose save ended in an error in one run *)
(* is not skipped by the next.                                             *)
C28_SkipFlagSound ==
    \A r \in Runs :
       /\ Finished(r)
          => \A k \in DOMAIN trace[r].fetches :
                LET f == trace[r].fetches[k] IN
                f.ok => \A g \in GamesWith(trace[r].after.games, f.token) :
                           g.details_fetched
                           => RoundsIn(trace[r].after.rounds, g._id)
                                = ExpectedRounds(g._id, sync[r].userId, f.payload)
       /\ r + 1 \in Runs
          => Range(trace[r + 1].skips) \cap ErrorTokens(r) = {}

(* C29: Status registry lifetime.  While a run of a user is registered or  *)
(* executing, the user has an entry in the registry: no cleanup timer      *)
(* removes it.                                                             *)
C29_RegistryLifetime ==
    \A q \in Runs : Active(q) => syncStatus[handler[q].userId] # NoStatus

(* C30: Child key uniqueness under interleaving.  When no run is going on, *)
(* no two stored rounds of a game have the same round_number and a game    *)
(* has no more rounds than the round count of its latest payload.          *)
C30_RoundKeyUnique ==
    (\A q \in Runs : handler[q].pc \in {"none", "rejected", "finished"})
    => /\ \A a, b \in DOMAIN rounds :
             (a # b /\ rounds[a].game_id = rounds[b].game_id)
             => rounds[a].round_number # rounds[b].round_number
       /\ \A g \in games : Len(RoundsOf(g._id)) <= g.round_count

====
